---- MODULE Spec2Model ----
(***************************************************************************)
(* Order-management dashboard (app/views.py, app/forms.py).                *)
(*                                                                         *)
(* The relational store holds Customers, Products, Orders and Users.  One  *)
(* view function serves one HTTP request.  Spec serves requests one at a   *)
(* time (a view runs to completion, then the response is returned);        *)
(* SpecUpdateRace and SpecSignupRace interleave the steps of two requests  *)
(* that use the same rows of the store.                                    *)
(*                                                                         *)
(* request.user.is_authenticated is an attribute of the request: the       *)
(* session lives in the authentication middleware, outside the store.      *)
(***************************************************************************)
EXTENDS Integers, Sequences, FiniteSets, TLC

\* ---------------------------------------------------------------- bounds
\* Orders ever inserted (ids are handed out 1, 2, ... and never reused).
MaxOrderId == 2
\* Rows in one submitted formset, and the largest TOTAL_FORMS submitted.
MaxRows == 2

\* ------------------------------------------------------------- the store
\* Customer and Product rows; no view of views.py inserts or deletes them.
Customers == {1, 2}
Products == {1, 2}
\* The closed enumeration of Order.status.
Statuses == {"Pending", "Done"}

VARIABLES
    orders,      \* the Order table: a sequence of rows in primary-key order
    nextId,      \* the next primary key the Order table hands out
    users,       \* the User table: a set of [username, email] rows
    req,         \* the request being served (NoReq when idle)
    resp,        \* its response (NoResp until the view returns)
    prevOrders,  \* the Order table as it was when the request arrived
    db,          \* the store operations the view has performed for req
    pc,          \* race specifications: each request's position
    body,        \* race specifications: each request's POST body
    local,       \* race specifications: each request's in-memory instance
    out,         \* race specifications: each request's response
    lastSave     \* race specifications: the request whose save ran last

vars == <<orders, nextId, users, req, resp, prevOrders, db,
          pc, body, local, out, lastSave>>
storeVars == <<orders, nextId, users>>
raceVars == <<pc, body, local, out, lastSave>>

\* ------------------------------------------------------------ Order rows
Order(i, c, p, s) == [id |-> i, customer |-> c, product |-> p, status |-> s]

Ids(tbl) == {tbl[k].id : k \in 1..Len(tbl)}

\* Order.objects.get(id=pk); used only where Exists(tbl, pk).
Exists(tbl, pk) == pk \in Ids(tbl)
Get(tbl, pk) == tbl[CHOOSE k \in 1..Len(tbl) : tbl[k].id = pk]

\* customer.order_set.all()
order_set(tbl, c) == SelectSeq(tbl, LAMBDA o : o.customer = c)

\* Mutant of SaveRow: save(update_fields=['status']), one column written.
SaveRowStatusOnly(tbl, o) ==
    [k \in 1..Len(tbl) |->
        IF tbl[k].id = o.id THEN [tbl[k] EXCEPT !.status = o.status] ELSE tbl[k]]

\* instance.save() of a row that exists: every column is written.
SaveRow(tbl, o) == [k \in 1..Len(tbl) |-> IF tbl[k].id = o.id THEN o ELSE tbl[k]]

\* instance.delete()
DeleteRow(tbl, pk) == SelectSeq(tbl, LAMBDA o : o.id # pk)

\* ------------------------------------------------- requests and responses
BlankRow == [id |-> 0, product |-> 0, status |-> ""]
NoForm == [customer |-> 0, product |-> 0, status |-> ""]
NoParam == "<absent>"

Request(v, a, m, k) ==
    [view |-> v, auth |-> a, method |-> m, pk |-> k, filter |-> NoParam,
     form |-> NoForm, total |-> 0, initial |-> 0, rows |-> <<>>]

NoReq == Request("none", FALSE, "GET", 0)

Response(k, t, a, os, st) ==
    [kind |-> k, to |-> t, arg |-> a, orders |-> os, stats |-> st]
NoResp == Response("none", "", 0, <<>>, <<>>)
redirect(t, a) == Response("redirect", t, a, <<>>, <<>>)
render(t, os, st) == Response("render", t, 0, os, st)
\* An exception no view catches: the request ends in a server error.
raise(e) == Response("error", e, 0, <<>>, <<>>)

Idle == req = NoReq

\* A request arrives at a view: the store it finds is remembered.
Arrive(rq) ==
    /\ Idle
    /\ req' = rq
    /\ prevOrders' = orders
    /\ UNCHANGED raceVars

\* @login_required(login_url='login'): the view is not called.
Denied(rq) ==
    /\ ~rq.auth
    /\ resp' = redirect("login", 0)
    /\ db' = {}
    /\ UNCHANGED storeVars

\* A view that only reads: response r after store operations d.
ReadOnly(r, d) ==
    /\ resp' = r
    /\ db' = d
    /\ UNCHANGED storeVars

Count(tbl, s) == Len(SelectSeq(tbl, LAMBDA o : o.status = s))

\* ------------------------------------------------------------------ home
home_view(rq) ==
    ReadOnly(render("app/dashboard.html", orders,
                    <<Cardinality(Customers), Len(orders),
                      Count(orders, "Done"), Count(orders, "Pending")>>),
             {"Order.all", "Customer.all"})

home(rq) == Arrive(rq) /\ (Denied(rq) \/ (rq.auth /\ home_view(rq)))

\* ----------------------------------------------------------- logout_user
\* logout(request) flushes the caller's session in the middleware.
logout_user_view(rq) == ReadOnly(redirect("login", 0), {})

logout_user(rq) == Arrive(rq) /\ (Denied(rq) \/ (rq.auth /\ logout_user_view(rq)))

\* -------------------------------------------------------------- products
products_view(rq) == ReadOnly(render("app/products.html", <<>>, <<>>), {"Product.all"})

products(rq) == Arrive(rq) /\ (Denied(rq) \/ (rq.auth /\ products_view(rq)))

\* -------------------------------------------------------------- customer
\* OrderFilter(request.GET, queryset=orders).qs, status criterion: a value of
\* the enumeration restricts; an absent, empty or unknown value is ignored.
OrderFilter(v, qs) ==
    IF v \in Statuses THEN SelectSeq(qs, LAMBDA o : o.status = v) ELSE qs

\* Mutant of customer_view: Order.objects.all() for customer.order_set.all().
customer_view_all_orders(rq) ==
    IF rq.pk \notin Customers
    THEN ReadOnly(raise("Customer.DoesNotExist"), {"Customer.get"})
    ELSE ReadOnly(render("app/customer.html", OrderFilter(rq.filter, orders),
                         <<Len(orders)>>),
                  {"Customer.get", "Order.filter"})

customer_view(rq) ==
    IF rq.pk \notin Customers
    THEN ReadOnly(raise("Customer.DoesNotExist"), {"Customer.get"})
    ELSE ReadOnly(render("app/customer.html",
                         OrderFilter(rq.filter, order_set(orders, rq.pk)),
                         <<Len(order_set(orders, rq.pk))>>),
                  {"Customer.get", "Order.filter"})

customer(rq) == Arrive(rq) /\ (Denied(rq) \/ (rq.auth /\ customer_view(rq)))

\* ---------------------------------------------------------- delete_order
\* Mutant of delete_order_view: the test of request.method is missing.
delete_order_view_any_method(rq) ==
    IF ~Exists(orders, rq.pk)
    THEN ReadOnly(raise("Order.DoesNotExist"), {"Order.get"})
    ELSE /\ orders' = DeleteRow(orders, rq.pk)
         /\ resp' = redirect("/", 0)
         /\ db' = {"Order.get", "Order.delete"}
         /\ UNCHANGED <<nextId, users>>

delete_order_view(rq) ==
    IF ~Exists(orders, rq.pk)
    THEN ReadOnly(raise("Order.DoesNotExist"), {"Order.get"})
    ELSE IF rq.method = "POST"
    THEN /\ orders' = DeleteRow(orders, rq.pk)
         /\ resp' = redirect("/", 0)
         /\ db' = {"Order.get", "Order.delete"}
         /\ UNCHANGED <<nextId, users>>
    ELSE ReadOnly(render("app/delete.html", <<Get(orders, rq.pk)>>, <<>>),
                  {"Order.get"})

\* Mutant of delete_order: the @login_required decorator is missing.
delete_order_ungated(rq) == Arrive(rq) /\ delete_order_view(rq)

delete_order(rq) == Arrive(rq) /\ (Denied(rq) \/ (rq.auth /\ delete_order_view(rq)))

\* ---------------------------------------------------------- update_order
\* OrderForm: fields = '__all__', the editable columns of Order.
OrderFormValid(f) ==
    /\ f.customer \in Customers
    /\ f.product \in Products
    /\ f.status \in Statuses

\* Mutant of construct_instance: a form with fields = ['status'].
construct_instance_status_only(o, f) == [o EXCEPT !.status = f.status]

\* form.is_valid() writes the cleaned fields into the loaded instance.
construct_instance(o, f) ==
    [o EXCEPT !.customer = f.customer, !.product = f.product, !.status = f.status]

update_order_view(rq) ==
    IF ~Exists(orders, rq.pk)
    THEN ReadOnly(raise("Order.DoesNotExist"), {"Order.get"})
    ELSE IF rq.method = "POST" /\ OrderFormValid(rq.form)
    THEN /\ orders' = SaveRow(orders, construct_instance(Get(orders, rq.pk), rq.form))
         /\ resp' = redirect("/", 0)
         /\ db' = {"Order.get", "Order.save"}
         /\ UNCHANGED <<nextId, users>>
    ELSE ReadOnly(render("app/update_order_form.html", <<Get(orders, rq.pk)>>, <<>>),
                  {"Order.get"})

update_order(rq) == Arrive(rq) /\ (Denied(rq) \/ (rq.auth /\ update_order_view(rq)))

\* ---------------------------------------------------------- create_order
\* OrderFormSet = inlineformset_factory(Customer, Order,
\*     fields=('product', 'status'), extra=1, can_delete=False)
\* A bound formset builds TOTAL_FORMS forms; the first INITIAL_FORMS of them
\* are initial forms, the others extra forms.  A form whose row was not
\* submitted reads blank data.
FormData(rq, i) == IF i <= Len(rq.rows) THEN rq.rows[i] ELSE BlankRow

IsInitialForm(rq, i) == i <= rq.initial

\* An extra form starts from blank initial data.
has_changed(row) == row # BlankRow

FieldsValid(row) == row.product \in Products /\ row.status \in Statuses

\* The hidden id field is a choice among all Orders; an initial form requires
\* it, an unchanged extra form is accepted as it is (empty_permitted).
FormValid(tbl, rq, i) ==
    LET row == FormData(rq, i)
    IN  IF IsInitialForm(rq, i)
        THEN row.id \in Ids(tbl) /\ FieldsValid(row)
        ELSE \/ ~has_changed(row)
             \/ FieldsValid(row) /\ (row.id = 0 \/ row.id \in Ids(tbl))

\* Mutant of is_valid: only the first form is validated.
is_valid_first_form(tbl, rq) == rq.total = 0 \/ FormValid(tbl, rq, 1)

is_valid(tbl, rq) == \A i \in 1..rq.total : FormValid(tbl, rq, i)

\* OrderFormSet(request.POST, instance=customer): the formset's queryset is
\* customer.order_set, so an initial form whose id names one of the
\* customer's Orders is bound to that Order and saves it; an id outside the
\* queryset leaves the form unbound and it is skipped.
RECURSIVE save_existing_objects(_, _, _, _)
save_existing_objects(tbl, c, rq, i) ==
    IF i > rq.total \/ ~IsInitialForm(rq, i)
    THEN tbl
    ELSE LET row == FormData(rq, i)
             saved == IF row.id \in Ids(order_set(tbl, c))
                      THEN SaveRow(tbl, Order(row.id, c, row.product, row.status))
                      ELSE tbl
         IN  save_existing_objects(saved, c, rq, i + 1)

\* One new Order per changed extra form, attributed to the customer.
RECURSIVE save_new_objects(_, _, _, _)
save_new_objects(c, rq, i, nid) ==
    IF i > rq.total
    THEN <<>>
    ELSE IF ~IsInitialForm(rq, i) /\ has_changed(FormData(rq, i))
    THEN <<Order(nid, c, FormData(rq, i).product, FormData(rq, i).status)>>
         \o save_new_objects(c, rq, i + 1, nid + 1)
    ELSE save_new_objects(c, rq, i + 1, nid)

\* formset.save()
formset_save(tbl, c, rq, nid) ==
    save_existing_objects(tbl, c, rq, 1) \o save_new_objects(c, rq, 1, nid)

create_order_view(rq) ==
    IF rq.pk \notin Customers
    THEN ReadOnly(raise("Customer.DoesNotExist"), {"Customer.get"})
    ELSE IF rq.method = "POST" /\ is_valid(orders, rq)
    THEN /\ nextId + Len(save_new_objects(rq.pk, rq, 1, nextId)) <= MaxOrderId + 1
         /\ orders' = formset_save(orders, rq.pk, rq, nextId)
         /\ nextId' = nextId + Len(save_new_objects(rq.pk, rq, 1, nextId))
         /\ resp' = redirect("customer", rq.pk)
         /\ db' = {"Customer.get", "Order.filter", "Order.save"}
         /\ UNCHANGED users
    ELSE ReadOnly(render("app/order_form.html", <<>>, <<>>),
                  IF rq.method = "POST" THEN {"Customer.get", "Order.filter"}
                                        ELSE {"Customer.get"})

create_order(rq) == Arrive(rq) /\ (Denied(rq) \/ (rq.auth /\ create_order_view(rq)))

\* ------------------------------------------------ the response is returned
Respond ==
    /\ ~Idle
    /\ req' = NoReq
    /\ resp' = NoResp
    /\ prevOrders' = orders
    /\ db' = {}
    /\ UNCHANGED <<storeVars, raceVars>>

\* ---------------------------------------------------------- the requests
Methods == {"GET", "POST"}
\* Path parameters: the Customers and one identifier that names none; every
\* Order identifier ever handed out and one that names none.
CustomerPks == Customers \cup {3}
OrderPks == 1..(MaxOrderId + 1)
FilterInputs == {NoParam, "", "Pending", "Done", "Bogus"}
FormInputs ==
    [customer : {1, 2, 3}, product : {1, 2, 3}, status : {"Pending", "Done", "Bogus"}]
\* A blank row, a well-formed row, a row with a status outside the
\* enumeration, a row with an unresolvable product, and a row that carries
\* the id of Order 1.
RowInputs ==
    {BlankRow,
     [id |-> 0, product |-> 1, status |-> "Pending"],
     [id |-> 0, product |-> 1, status |-> "Bogus"],
     [id |-> 0, product |-> 3, status |-> "Pending"],
     [id |-> 1, product |-> 2, status |-> "Done"]}
RowSeqs == UNION {[1..n -> RowInputs] : n \in 0..MaxRows}
InitialCounts == {0, 1}

PlainRequests(v) == {Request(v, a, m, 0) : a \in BOOLEAN, m \in Methods}
CustomerRequests ==
    {[Request("customer", a, "GET", k) EXCEPT !.filter = f] :
        a \in BOOLEAN, k \in CustomerPks, f \in FilterInputs}
DeleteRequests ==
    {Request("delete_order", a, m, k) : a \in BOOLEAN, m \in Methods, k \in OrderPks}
UpdateRequests ==
    {Request("update_order", a, "GET", k) : a \in BOOLEAN, k \in OrderPks}
    \cup {[Request("update_order", a, "POST", k) EXCEPT !.form = f] :
            a \in BOOLEAN, k \in OrderPks, f \in FormInputs}
CreateRequests ==
    {Request("create_order", a, "GET", k) : a \in BOOLEAN, k \in CustomerPks}
    \cup {[Request("create_order", a, "POST", k)
              EXCEPT !.total = t, !.initial = n, !.rows = rs] :
            a \in BOOLEAN, k \in CustomerPks, t \in 0..MaxRows,
            n \in InitialCounts, rs \in RowSeqs}

\* ------------------------------------------------------------------ Spec
Init ==
    /\ orders = <<>>
    /\ nextId = 1
    /\ users = {}
    /\ req = NoReq
    /\ resp = NoResp
    /\ prevOrders = <<>>
    /\ db = {}
    /\ pc = <<>>
    /\ body = <<>>
    /\ local = <<>>
    /\ out = <<>>
    /\ lastSave = 0

\* A request is taken up when none is being served.
Next ==
    \/ Idle /\ \E rq \in PlainRequests("home") : home(rq)
    \/ Idle /\ \E rq \in PlainRequests("products") : products(rq)
    \/ Idle /\ \E rq \in PlainRequests("logout_user") : logout_user(rq)
    \/ Idle /\ \E rq \in CustomerRequests : customer(rq)
    \/ Idle /\ \E rq \in CreateRequests : create_order(rq)
    \/ Idle /\ \E rq \in UpdateRequests : update_order(rq)
    \/ Idle /\ \E rq \in DeleteRequests : delete_order(rq)
    \/ Respond

Spec == Init /\ [][Next]_vars

\* ======================================================================
\* Two requests in flight.  Each runs the statements of its view in order;
\* the statements of the two interleave, and every statement that touches
\* the store is one step.
Procs == {1, 2}
seqVars == <<req, resp, prevOrders, db>>

Goto(p, l) == pc' = [pc EXCEPT ![p] = l]
Return(p, r) == out' = [out EXCEPT ![p] = r] /\ Goto(p, "done")

\* ------------------------------------------- update_order, step by step
\* Both requests are authenticated POSTs for the Order TargetPk.
TargetPk == prevOrders[1].id

\* order = Order.objects.get(id=pk)
u_load(p) ==
    /\ pc[p] = "load"
    /\ IF Exists(orders, TargetPk)
       THEN /\ local' = [local EXCEPT ![p] = Get(orders, TargetPk)]
            /\ Goto(p, "validate")
            /\ UNCHANGED out
       ELSE Return(p, raise("Order.DoesNotExist")) /\ UNCHANGED local
    /\ UNCHANGED <<storeVars, seqVars, body, lastSave>>

\* form = OrderForm(request.POST, instance=order); form.is_valid()
u_validate(p) ==
    /\ pc[p] = "validate"
    /\ IF OrderFormValid(body[p])
       THEN /\ local' = [local EXCEPT ![p] = construct_instance(local[p], body[p])]
            /\ Goto(p, "save")
            /\ UNCHANGED out
       ELSE Return(p, render("app/update_order_form.html", <<local[p]>>, <<>>))
            /\ UNCHANGED local
    /\ UNCHANGED <<storeVars, seqVars, body, lastSave>>

\* form.save(); return redirect('/')
u_save(p) ==
    /\ pc[p] = "save"
    /\ orders' = SaveRow(orders, local[p])
    /\ lastSave' = p
    /\ Return(p, redirect("/", 0))
    /\ UNCHANGED <<nextId, users, seqVars, body, local>>

\* The Order both requests name, with any stored fields, and another Order.
UpdateRaceInit ==
    /\ \E c \in Customers, pr \in Products, s \in Statuses :
          orders = <<Order(1, c, pr, s), Order(2, 2, 2, "Pending")>>
    /\ nextId = 3
    /\ users = {}
    /\ req = NoReq
    /\ resp = NoResp
    /\ prevOrders = orders
    /\ db = {}
    /\ pc = [p \in Procs |-> "load"]
    /\ body \in [Procs -> FormInputs]
    /\ local = [p \in Procs |-> Order(0, 0, 0, "")]
    /\ out = [p \in Procs |-> NoResp]
    /\ lastSave = 0

UpdateRaceNext == \E p \in Procs : u_load(p) \/ u_validate(p) \/ u_save(p)

SpecUpdateRace == UpdateRaceInit /\ [][UpdateRaceNext]_vars

\* ------------------------------------------- signup_login, step by step
Usernames == {"ana", "bo"}
Emails == {"a@x.io", "b@x.io"}
\* password_ok: on sign_up the two passwords agree; on sign_in the password
\* is the user's.
SignupRequest(a, m, sb, u, e, ok) ==
    [auth |-> a, method |-> m, submit |-> sb, username |-> u, email |-> e,
     password_ok |-> ok]
SignupInputs ==
    {SignupRequest(a, "GET", "", "", "", FALSE) : a \in BOOLEAN}
    \cup {SignupRequest(FALSE, "POST", "", "", "", FALSE)}
    \cup {SignupRequest(FALSE, "POST", "sign_up", u, e, ok) :
            u \in Usernames, e \in Emails, ok \in BOOLEAN}
    \cup {SignupRequest(FALSE, "POST", "sign_in", u, "", ok) :
            u \in Usernames, ok \in BOOLEAN}

User(b) == [username |-> b.username, email |-> b.email]

\* CreateUserForm.clean_email
clean_email(tbl, email) == ~\E u \in tbl : u.email = email

\* CreateUserForm(request.POST).is_valid(): the username is not taken, the
\* e-mail is not taken, the two passwords agree.
CreateUserFormValid(tbl, b) ==
    /\ ~\E u \in tbl : u.username = b.username
    /\ clean_email(tbl, b.email)
    /\ b.password_ok

\* authenticate(request, username=username, password=password)
authenticate(tbl, b) == b.password_ok /\ \E u \in tbl : u.username = b.username

\* The view up to and including form.is_valid() or authenticate().
s_begin(p) ==
    /\ pc[p] = "start"
    /\ IF body[p].auth
       THEN Return(p, redirect("home", 0))
       ELSE IF body[p].method = "POST" /\ body[p].submit = "sign_up"
                /\ CreateUserFormValid(users, body[p])
       THEN Goto(p, "save") /\ UNCHANGED out
       ELSE IF body[p].method = "POST" /\ body[p].submit = "sign_in"
                /\ authenticate(users, body[p])
       THEN Return(p, redirect("home", 0))
       ELSE Return(p, render("app/login.html", <<>>, <<>>))
    /\ UNCHANGED <<storeVars, seqVars, body, local, lastSave>>

\* form.save(): User.username is unique in the table, User.email is not.
s_save(p) ==
    /\ pc[p] = "save"
    /\ IF \E u \in users : u.username = body[p].username
       THEN Return(p, raise("IntegrityError")) /\ UNCHANGED users
       ELSE /\ users' = users \cup {User(body[p])}
            /\ Return(p, render("app/login.html", <<>>, <<>>))
    /\ UNCHANGED <<orders, nextId, seqVars, body, local, lastSave>>

\* The response is returned and the client sends its next request.
s_next(p) ==
    /\ pc[p] = "done"
    /\ \E b \in SignupInputs : body' = [body EXCEPT ![p] = b]
    /\ pc' = [pc EXCEPT ![p] = "start"]
    /\ out' = [out EXCEPT ![p] = NoResp]
    /\ UNCHANGED <<storeVars, seqVars, local, lastSave>>

SignupRaceInit ==
    /\ orders = <<>>
    /\ nextId = 1
    /\ users = {}
    /\ req = NoReq
    /\ resp = NoResp
    /\ prevOrders = <<>>
    /\ db = {}
    /\ pc = [p \in Procs |-> "start"]
    /\ body \in [Procs -> SignupInputs]
    /\ local = [p \in Procs |-> Order(0, 0, 0, "")]
    /\ out = [p \in Procs |-> NoResp]
    /\ lastSave = 0

SignupRaceNext == \E p \in Procs : s_begin(p) \/ s_save(p) \/ s_next(p)

SpecSignupRace == SignupRaceInit /\ [][SignupRaceNext]_vars

\* ======================================================================
\* Properties.  In Spec a state with req # NoReq is the state a view left
\* behind: req is the request it served, resp its response, prevOrders the
\* Order table it found and orders the table it left.

CreatePost(rq) ==
    rq.view = "create_order" /\ rq.auth /\ rq.method = "POST" /\ rq.pk \in Customers
UpdatePost(rq) == rq.view = "update_order" /\ rq.auth /\ rq.method = "POST"
DeletePost(rq) == rq.view = "delete_order" /\ rq.auth /\ rq.method = "POST"

\* The rows of a submission that the management record counts.
CountedRows(rq) == {i \in 1..rq.total : i <= Len(rq.rows)}
NonBlankRows(rq) == {i \in CountedRows(rq) : rq.rows[i] # BlankRow}
WellFormed(row) == row.product \in Products /\ row.status \in Statuses

\* The rows of the old table are all still there, unchanged and in place.
Kept(old, new) == Len(new) >= Len(old) /\ \A k \in 1..Len(old) : new[k] = old[k]

\* ---------------------------------------------------------------- C1
\* C1: an authenticated create-order POST for an existing Customer C whose
\* formset is valid and contains N non-blank (well-formed) rows leaves exactly
\* N more Orders in the store than before, each new Order references C, and
\* the response is a redirect to C's detail view.
C1_CreateAddsOnePerRow ==
    (CreatePost(req) /\ is_valid(prevOrders, req)) =>
        /\ Len(orders) = Len(prevOrders) + Cardinality(NonBlankRows(req))
        /\ \A k \in (Len(prevOrders) + 1)..Len(orders) : orders[k].customer = req.pk
        /\ resp = redirect("customer", req.pk)

C3_UpdateChangesOnlyStatus ==
    (UpdatePost(req) /\ Exists(prevOrders, req.pk) /\ req.form.status \in Statuses) =>
        /\ Len(orders) = Len(prevOrders)
        /\ \A k \in 1..Len(orders) :
              /\ orders[k].id = prevOrders[k].id
              /\ orders[k].customer = prevOrders[k].customer
              /\ orders[k].product = prevOrders[k].product
              /\ orders[k].id # req.pk => orders[k] = prevOrders[k]

\* C3 amended: an authenticated update-order POST for an existing Order O
\* keeps O's identity and every other Order; when the submitted customer,
\* product and status are all valid, O's customer, product and status become
\* the submitted values (so only the status changes when the submitted
\* customer and product are O's own); otherwise O is unchanged.
C3_UpdateWritesSubmittedFields ==
    (UpdatePost(req) /\ Exists(prevOrders, req.pk)) =>
        /\ Len(orders) = Len(prevOrders)
        /\ \A k \in 1..Len(orders) :
              /\ orders[k].id = prevOrders[k].id
              /\ orders[k].id # req.pk => orders[k] = prevOrders[k]
              /\ orders[k].id = req.pk =>
                    IF /\ req.form.customer \in Customers
                       /\ req.form.product \in Products
                       /\ req.form.status \in Statuses
                    THEN /\ orders[k].customer = req.form.customer
                         /\ orders[k].product = req.form.product
                         /\ orders[k].status = req.form.status
                    ELSE orders[k] = prevOrders[k]

\* A valid update that submits another status and another product, with a
\* second Order in the store.
C3_Witness ==
    /\ UpdatePost(req) /\ Exists(prevOrders, req.pk) /\ Len(prevOrders) >= 2
    /\ resp = redirect("/", 0)
    /\ req.form.status # Get(prevOrders, req.pk).status
    /\ req.form.product # Get(prevOrders, req.pk).product

\* ---------------------------------------------------------------- C4
\* An identifier that was handed out and names no Order: a deleted Order.
Deleted(i) == i < nextId /\ ~Exists(orders, i)

\* C4: for an existing Order O, an authenticated delete-order GET leaves the
\* store unchanged and renders the confirmation; a delete-order POST removes
\* exactly O, leaves every other Order unchanged and redirects to the
\* dashboard; a deleted identifier stays deleted, and every later
\* authenticated update-order or delete-order request for it fails with
\* Order.DoesNotExist.
C4_Delete ==
    [][/\ (req'.view = "delete_order" /\ req'.auth /\ Exists(orders, req'.pk)) =>
             IF req'.method = "POST"
             THEN /\ Ids(orders') = Ids(orders) \ {req'.pk}
                  /\ Len(orders') = Len(orders) - 1
                  /\ \A k \in 1..Len(orders) :
                        orders[k].id # req'.pk => \E j \in 1..Len(orders') : orders'[j] = orders[k]
                  /\ users' = users
                  /\ resp' = redirect("/", 0)
             ELSE orders' = orders /\ users' = users /\ resp'.kind = "render"
       /\ \A i \in OrderPks : Deleted(i) => Deleted(i)'
       /\ (/\ req'.view \in {"update_order", "delete_order"}
           /\ req'.auth
           /\ Deleted(req'.pk)) =>
             resp' = raise("Order.DoesNotExist") /\ orders' = orders
      ]_vars

\* A confirmed delete of one Order out of two.
C4_Witness ==
    /\ DeletePost(req) /\ Exists(prevOrders, req.pk) /\ Len(prevOrders) = 2
    /\ resp = redirect("/", 0)

\* ---------------------------------------------------------------- C5
GatedViews ==
    {"home", "products", "customer", "create_order", "update_order",
     "delete_order", "logout_user"}

\* C5: a gated view called on an unauthenticated request answers with a
\* redirect to the login entry point and performs no store operation,
\* whatever the method and the path parameter.
C5_Gate ==
    (req.view \in GatedViews /\ ~req.auth) =>
        /\ resp = redirect("login", 0)
        /\ db = {}
        /\ orders = prevOrders

\* An unauthenticated delete-order POST for an Order that exists.
C5_Witness ==
    /\ req.view = "delete_order" /\ ~req.auth /\ req.method = "POST"
    /\ Exists(orders, req.pk)
    /\ resp = redirect("login", 0)

\* ---------------------------------------------------------------- C6
\* The request names an Order or a Customer that is not in the store.
NamesNothing(rq) ==
    /\ rq.auth
    /\ \/ rq.view \in {"update_order", "delete_order"} /\ ~Exists(prevOrders, rq.pk)
       \/ rq.view \in {"create_order", "customer"} /\ rq.pk \notin Customers

\* C6: an authenticated request that names an Order or Customer that does not
\* exist gets a "not found" response, not a rendered page and not an
\* unhandled error, and the store is unchanged.
C6_NotFoundResponse ==
    NamesNothing(req) => resp.kind = "not_found" /\ orders = prevOrders

\* ---------------------------------------------------------------- C7
CustomerGet(rq) == rq.view = "customer" /\ rq.auth /\ rq.pk \in Customers

C8_Lifecycle ==
    /\ (Ids(orders) \ Ids(prevOrders) # {}) => CreatePost(req)
    /\ \A k \in 1..Len(prevOrders) :
          \/ \E j \in 1..Len(orders) : orders[j] = prevOrders[k]
          \/ /\ Exists(orders, prevOrders[k].id)
             /\ UpdatePost(req) /\ req.pk = prevOrders[k].id
          \/ /\ ~Exists(orders, prevOrders[k].id)
             /\ DeletePost(req) /\ req.pk = prevOrders[k].id
    /\ CreatePost(req) => Kept(prevOrders, orders)

\* ---------------------------------------------------------------- C9
BothDone == \A p \in Procs : pc[p] = "done"

\* C9: when two update-order POSTs with valid bodies for the same Order have
\* both finished, both were answered with a redirect, the Order's customer,
\* product and status are those submitted by the request that saved last,
\* and the other Order is unchanged.
C9_LastWriteWins ==
    (BothDone /\ \A p \in Procs : OrderFormValid(body[p])) =>
        /\ \A p \in Procs : out[p] = redirect("/", 0)
        /\ lastSave \in Procs
        /\ Len(orders) = 2
        /\ orders[1] = Order(prevOrders[1].id, body[lastSave].customer,
                             body[lastSave].product, body[lastSave].status)
        /\ orders[2] = prevOrders[2]

\* Both finished, the first request saved last, and the two bodies differ in
\* every field.
C9_Witness ==
    /\ BothDone /\ lastSave = 1
    /\ \A p \in Procs : OrderFormValid(body[p])
    /\ body[1].customer # body[2].customer
    /\ body[1].product # body[2].product
    /\ body[1].status # body[2].status

\* --------------------------------------------------------------- C10
\* C10: no two User rows have the same e-mail.
C10_EmailsUnique == \A u, v \in users : u.email = v.email => u = v

====
